---------------------------- MODULE Spec2Model ----------------------------
(***************************************************************************)
(* A model of grpcauth's Authority: the gRPC server interceptors that      *)
(* authenticate a call from its metadata, authorize it against the method  *)
(* name, bind the AuthResult into the call's context and translate every   *)
(* failure into a gRPC status.                                             *)
(*                                                                         *)
(* Go strings are sequences of one-character strings, so that string       *)
(* equality, JSON encoding and fmt's format-string processing are computed *)
(* character by character as the code computes them.                       *)
(***************************************************************************)
EXTENDS Naturals, Sequences, FiniteSets

(***************************************************************************)
(* Bounds of the model.                                                    *)
(***************************************************************************)
MaxCalls == 2
\* the largest number of values of the authorization header in a call
MaxAuthValues == 2
\* the longest permission list of the pure-function specification
MaxPerms == 2
\* the most messages a stream handler moves through its stream
MaxMsgs == 1

VARIABLES
  authority,   \* the Authority NewAuthority returned, NoAuthority before, or the panic
  calls,       \* per call: the interceptor's position and its locals
  fn           \* the last application of a pure function (specification SpecFn)

vars == <<authority, calls, fn>>

(***************************************************************************)
(* Strings.                                                                *)
(***************************************************************************)
Digits == {"0", "1", "2", "3", "4", "5", "6", "7", "8", "9"}

\* the flag characters of a fmt verb
Flags == {"#", "0", "+", "-", " "}

\* strings.HasPrefix, the prefix comparison that permission == methodName is not
HasPrefix(s, prefix) ==
  /\ Len(prefix) <= Len(s)
  /\ \A i \in 1..Len(prefix) : s[i] = prefix[i]

\* the method names and permission strings of the model
sM == <<"/", "M">>
sLowerM == <<"/", "m">>
sSlash == <<"/">>
sStar == <<"/", "*">>
sPctM == <<"/", "%", "M">>

\* the method names of the pure-function specification
Methods == {sM, sPctM}

\* info.FullMethod of the interleaved calls
CallMethods == {sM}

\* the strings a permission list is made of: the method itself, a case
\* variant, a prefix, a wildcard and a name holding '%'
PermissionStrings == {sM, sLowerM, sSlash, sStar, sPctM}

\* client identifiers: plain, ending in '%', holding "%%", holding '"'
idC1 == <<"c", "1">>
idPct == <<"c", "%">>
idPctPct == <<"%", "%">>
idQuote == <<"a", "\"">>

ClientIdentifiers == {idC1, idPct, idPctPct, idQuote}

(***************************************************************************)
(* Slices, AuthResult, errors, contexts.                                   *)
(***************************************************************************)
\* a Go []string: nil, or a (possibly empty) list
NilSlice == [isNil |-> TRUE, elems |-> <<>>]

Slice(elems) == [isNil |-> FALSE, elems |-> elems]

\* *AuthResult: the nil pointer, or a pointer to an AuthResult
NilAuthResult ==
  [isNil |-> TRUE, ClientIdentifier |-> <<>>, Timestamp |-> 0,
   Permissions |-> NilSlice]

AuthResult(id, ts, perms) ==
  [isNil |-> FALSE, ClientIdentifier |-> id, Timestamp |-> ts,
   Permissions |-> perms]

\* the nil error
NoError == [kind |-> "nil", code |-> "OK", msg |-> <<>>]

\* status.Error(code, msg)
StatusError(code, msg) == [kind |-> "status", code |-> code, msg |-> msg]

\* an error that is not a gRPC status (fmt.Errorf, errors.New)
PlainError(name) == [kind |-> "plain", code |-> name, msg |-> <<>>]

ErrUnauthenticatedContext == PlainError("ErrUnauthenticatedContext")

\* a nil context.Context
NilCtx ==
  [isNil |-> TRUE, hasMD |-> FALSE, authorization |-> <<>>,
   auth |-> NilAuthResult]

\* a context: its incoming metadata (if any; of it, the values of the
\* authorization header) and the value under authContextKey(authKeyName)
Ctx(hasMD, authorization, auth) ==
  [isNil |-> FALSE, hasMD |-> hasMD, authorization |-> authorization,
   auth |-> auth]

\* a faulty binding: a fresh AuthResult holding the identifier only
WithAuthValueIdOnly(ctx, authResult) ==
  [ctx EXCEPT !.auth = AuthResult(authResult.ClientIdentifier, 0, NilSlice)]

\* context.WithValue(ctx, authContextKey(authKeyName), authResult)
WithAuthValue(ctx, authResult) == [ctx EXCEPT !.auth = authResult]

\* a run-time panic, where a result was expected
Panic == [kind |-> "panic", code |-> "nil pointer dereference", msg |-> <<>>]

\* a faulty GetAuthResult: an empty AuthResult for a context without one
GetAuthResultDefaulting(ctx) ==
  IF ctx.isNil THEN [result |-> NilAuthResult, err |-> Panic]
  ELSE IF ctx.auth.isNil
  THEN [result |-> AuthResult(<<>>, 0, NilSlice), err |-> NoError]
  ELSE [result |-> ctx.auth, err |-> NoError]

\* GetAuthResult: (the *AuthResult, the error); ctx.Value on a nil
\* context.Context panics
GetAuthResult(ctx) ==
  IF ctx.isNil THEN [result |-> NilAuthResult, err |-> Panic]
  ELSE IF ctx.auth.isNil
  THEN [result |-> NilAuthResult, err |-> ErrUnauthenticatedContext]
  ELSE [result |-> ctx.auth, err |-> NoError]

(***************************************************************************)
(* fmt.Sprintf(format) with no operands, as status.Errorf calls it.        *)
(* Formats hold no '[' (an explicit argument index).                       *)
(***************************************************************************)
noVerbString == <<"%", "!", "(", "N", "O", "V", "E", "R", "B", ")">>

badWidthString == <<"%", "!", "(", "B", "A", "D", "W", "I", "D", "T", "H", ")">>

badPrecString == <<"%", "!", "(", "B", "A", "D", "P", "R", "E", "C", ")">>

\* p.missingArg(verb)
missingArg(verb) ==
  <<"%", "!", verb>> \o <<"(", "M", "I", "S", "S", "I", "N", "G", ")">>

\* the first index >= i of format that holds no character of set
RECURSIVE SkipWhile(_, _, _)
SkipWhile(format, i, set) ==
  IF i <= Len(format) /\ format[i] \in set
  THEN SkipWhile(format, i + 1, set)
  ELSE i

\* one verb of doPrintf, format[i - 1] being its '%': what it writes and
\* the index after it
PrintVerb(format, i) ==
  LET end == Len(format)
      afterFlags == SkipWhile(format, i, Flags)
      star == afterFlags <= end /\ format[afterFlags] = "*"
      afterWidth ==
        IF star THEN afterFlags + 1 ELSE SkipWhile(format, afterFlags, Digits)
      width == IF star THEN badWidthString ELSE <<>>
      dot == afterWidth <= end /\ format[afterWidth] = "."
      precStar ==
        dot /\ afterWidth + 1 <= end /\ format[afterWidth + 1] = "*"
      afterPrec ==
        IF ~dot THEN afterWidth
        ELSE IF precStar THEN afterWidth + 2
        ELSE SkipWhile(format, afterWidth + 1, Digits)
      prec == IF precStar THEN badPrecString ELSE <<>>
  IN  IF afterPrec > end
      THEN [out |-> width \o prec \o noVerbString, next |-> end + 1]
      ELSE IF format[afterPrec] = "%"
      THEN [out |-> width \o prec \o <<"%">>, next |-> afterPrec + 1]
      ELSE [out |-> width \o prec \o missingArg(format[afterPrec]),
            next |-> afterPrec + 1]

\* the index of the first '%' of format at or after i, Len(format) + 1 if none
NextPercent(format, i) ==
  LET at == {j \in i..Len(format) : format[j] = "%"}
  IN  IF at = {} THEN Len(format) + 1
      ELSE CHOOSE j \in at : \A k \in at : j <= k

\* doPrintf from index i on: the text up to the next '%' is copied, then the
\* verb is processed
RECURSIVE doPrintf(_, _)
doPrintf(format, i) ==
  IF i > Len(format) THEN <<>>
  ELSE LET pct == NextPercent(format, i)
       IN  IF pct > Len(format) THEN SubSeq(format, i, Len(format))
           ELSE LET v == PrintVerb(format, pct + 1)
                IN  SubSeq(format, i, pct - 1) \o v.out \o doPrintf(format, v.next)

\* fmt.Sprintf(format): doPrintf over the format string (taken as a value)
Sprintf(format) ==
  CHOOSE out \in {doPrintf(f, 1) : f \in {format}} : TRUE

\* status.Errorf(c, format): Error(c, fmt.Sprintf(format))
Errorf(code, format) == StatusError(code, Sprintf(format))

(***************************************************************************)
(* errors.go and encoding/json's Marshal of a *PermissionDeniedError.      *)
(***************************************************************************)
UnauthenticatedError ==
  <<"{", "\"", "e", "r", "r", "o", "r", "\"", ":", " ", "\"", "n", "o", " ", "v",
    "a", "l", "i", "d", " ", "a", "u", "t", "h", "o", "r", "z", "a", "t", "i", "o",
    "n", " ", "m", "e", "t", "a", "d", "a", "t", "a", " ", "f", "i", "e", "l", "d",
    "\"", "}">>

errUnauthorized == Errorf("Unauthenticated", UnauthenticatedError)

PermissionDeniedError(id, methodName, perms) ==
  [ClientIdentifier |-> id, PermissionRequested |-> methodName,
   ClientPermissions |-> perms]

\* one character of a JSON string: '"' and '\' get a backslash, and the
\* HTML characters their \u escape
JSONEscape(ch) ==
  CASE ch = "\"" -> <<"\\", "\"">>
    [] ch = "\\" -> <<"\\", "\\">>
    [] ch = "<" -> <<"\\", "u", "0", "0", "3", "c">>
    [] ch = ">" -> <<"\\", "u", "0", "0", "3", "e">>
    [] ch = "&" -> <<"\\", "u", "0", "0", "2", "6">>
    [] OTHER -> <<ch>>

RECURSIVE JSONChars(_, _)
JSONChars(s, i) ==
  IF i > Len(s) THEN <<>> ELSE JSONEscape(s[i]) \o JSONChars(s, i + 1)

JSONString(s) == <<"\"">> \o JSONChars(s, 1) \o <<"\"">>

RECURSIVE JSONElems(_, _)
JSONElems(elems, i) ==
  IF i > Len(elems) THEN <<>>
  ELSE (IF i > 1 THEN <<",">> ELSE <<>>)
       \o JSONString(elems[i]) \o JSONElems(elems, i + 1)

\* a []string: null when nil, else the array
JSONStringSlice(slice) ==
  IF slice.isNil THEN <<"n", "u", "l", "l">>
  ELSE <<"[">> \o JSONElems(slice.elems, 1) \o <<"]">>

\* json.Marshal(permissionDenied): the struct's fields in declaration order
\* under their json tags
Marshal(pd) ==
  <<"{", "\"", "c", "l", "i", "e", "n", "t", "I", "d", "e", "n", "t", "i", "f", "i",
    "e", "r", "\"", ":">>
  \o JSONString(pd.ClientIdentifier)
  \o <<",", "\"", "p", "e", "r", "m", "i", "s", "s", "i", "o", "n", "R", "e", "q", "u",
       "e", "s", "t", "e", "d", "\"", ":">>
  \o JSONString(pd.PermissionRequested)
  \o <<",", "\"", "c", "l", "i", "e", "n", "t", "P", "e", "r", "m", "i", "s", "s", "i",
       "o", "n", "s", "\"", ":">>
  \o JSONStringSlice(pd.ClientPermissions)
  \o <<"}">>

\* what json.Marshal returns: (b, nil), or (nil, err) should it fail
MarshalOK(pd) == [b |-> Marshal(pd), err |-> NoError]

MarshalFailed == [b |-> <<>>, err |-> PlainError("json: error")]

\* a faulty denial: the error of json.Marshal is returned as it is
denialStatusOrErr(m) ==
  IF m.err # NoError THEN m.err ELSE Errorf("PermissionDenied", m.b)

\* b, _ := json.Marshal(permissionDenied); string(b) as the format of
\* status.Errorf: the error is dropped, and string(b) of a nil b is ""
denialStatus(m) == Errorf("PermissionDenied", m.b)

\* lines 147-155 of authenticateAndAuthorizeContext: the error of a denial
\* (json.Marshal does not fail on a struct of strings and a []string)
permissionDeniedStatus(authResult, methodName) ==
  denialStatus(MarshalOK(PermissionDeniedError(authResult.ClientIdentifier,
                                               methodName,
                                               authResult.Permissions)))

(***************************************************************************)
(* The permission strategies.                                              *)
(***************************************************************************)
\* a faulty NoPermissions: every client is let in
NoPermissionsAllowingAll(permissions, methodName) == TRUE

\* NoPermissions: true exactly for a client that has no permissions
NoPermissions(permissions, methodName) ==
  IF Len(permissions.elems) # 0 THEN FALSE ELSE TRUE

\* the loop of defaultHasPermissions from its i-th element on
RECURSIVE rangePermissions(_, _, _)
rangePermissions(elems, methodName, i) ==
  IF i > Len(elems) THEN FALSE
  ELSE IF elems[i] = methodName THEN TRUE
  ELSE rangePermissions(elems, methodName, i + 1)

\* a faulty default strategy: a permission that is a prefix of the method
\* name grants it
defaultHasPermissionsByPrefix(permissions, methodName) ==
  \E i \in 1..Len(permissions.elems) : HasPrefix(methodName, permissions.elems[i])

defaultHasPermissions(permissions, methodName) ==
  rangePermissions(permissions.elems, methodName, 1)

\* what NewAuthority may be given as permissionFunc: nil, NoPermissions, or
\* a function of the integrator's, of which only its boolean result is known
PermissionFuncArgs == {"nil", "NoPermissions", "custom"}

\* what NewAuthority may be given as authFunc: nil or an AuthFunc
AuthFuncArgs == {"nil", "authFunc"}

\* no Authority yet, and the panic of NewAuthority
NoAuthority ==
  [state |-> "none", IsAuthenticated |-> "nil", HasPermissions |-> "nil"]

PanicAuthority ==
  [state |-> "panic", IsAuthenticated |-> "nil", HasPermissions |-> "nil"]

\* a faulty NewAuthority: the struct literal alone
NewAuthorityUnchecked(authFunc, permissionFunc) ==
  [state |-> "ready", IsAuthenticated |-> authFunc,
   HasPermissions |-> permissionFunc]

\* NewAuthority(authFunc, permissionFunc): the authority struct or the panic
NewAuthorityResult(authFunc, permissionFunc) ==
  IF authFunc = "nil" THEN PanicAuthority
  ELSE [state |-> "ready",
        IsAuthenticated |-> authFunc,
        HasPermissions |->
          IF permissionFunc = "nil" THEN "defaultHasPermissions"
          ELSE permissionFunc]

\* the results a call of a.HasPermissions(permissions, methodName) can have
HasPermissionsResults(f, permissions, methodName) ==
  CASE f = "defaultHasPermissions" ->
         {defaultHasPermissions(permissions, methodName)}
    [] f = "NoPermissions" -> {NoPermissions(permissions, methodName)}
    [] OTHER -> BOOLEAN

\* a faulty validateIncomingMetadata: any number of values but none
validateIncomingMetadataAtLeastOne(authorization) ==
  IF Len(authorization) < 1 THEN FALSE ELSE TRUE

\* validateIncomingMetadata: exactly one value of the authorization header
validateIncomingMetadata(authorization) ==
  IF Len(authorization) # 1 THEN FALSE ELSE TRUE

(***************************************************************************)
(* The calls.                                                              *)
(***************************************************************************)
CallIds == 1..MaxCalls

\* the contexts a call arrives with: without incoming metadata, or with
\* metadata holding 0..MaxAuthValues values of the authorization header.
\* No caller can bind a value under the unexported authContextKey.
IncomingContexts ==
  {Ctx(FALSE, <<>>, NilAuthResult)}
  \cup {Ctx(TRUE, [i \in 1..n |-> "bearer"], NilAuthResult) :
          n \in 0..MaxAuthValues}

\* the AuthResults the authentication strategy produces in the calls
Principals ==
  {AuthResult(idC1, 1, Slice(<<sM>>)),
   AuthResult(idPct, 2, NilSlice),
   AuthResult(idQuote, 1, Slice(<<sSlash, sPctM>>))}

\* the errors of the authentication strategy and of the handlers
errInvalidToken == PlainError("invalid token")

errProvider == PlainError("provider unreachable")

HandlerError == PlainError("handler failed")

\* what a.IsAuthenticated(md) can return: an error (with or without a
\* result), an AuthResult, or neither
AuthOutcomes ==
  {[result |-> NilAuthResult, err |-> errProvider],
   [result |-> AuthResult(idC1, 1, Slice(<<sM>>)), err |-> errInvalidToken],
   [result |-> NilAuthResult, err |-> NoError]}
  \cup {[result |-> p, err |-> NoError] : p \in Principals}

\* what a handler can return
UnaryHandlerReturns ==
  {[resp |-> "resp1", err |-> NoError], [resp |-> "nil", err |-> HandlerError]}

StreamHandlerReturns ==
  {[resp |-> "nil", err |-> NoError], [resp |-> "nil", err |-> HandlerError]}

NoArgs == [permissions |-> NilSlice, methodName |-> <<>>]

\* a call no interceptor has been entered for
IdleCall ==
  [pc |-> "idle", kind |-> "none", ctx |-> NilCtx, methodName |-> <<>>,
   req |-> "nil", gateCalls |-> 0,
   authCalls |-> 0, authResult |-> NilAuthResult, authErr |-> NoError,
   permCalls |-> 0, permArgs |-> NoArgs, permResult |-> FALSE,
   gate |-> "none", gateCtx |-> NilCtx, gateErr |-> NoError,
   handlerCalls |-> 0, handlerCtx |-> NilCtx, handlerReq |-> "nil",
   handlerResp |-> "nil", handlerErr |-> NoError,
   msgs |-> 0, resp |-> "nil", err |-> NoError]

\* the interceptor's frame on entry
EnteredCall(kind, ctx, methodName, req) ==
  [IdleCall EXCEPT !.pc = "entered", !.kind = kind, !.ctx = ctx,
                   !.methodName = methodName, !.req = req]

\* authenticateAndAuthorizeContext returns (ctx, err)
GateReturns(call, ctx, err) ==
  [call EXCEPT !.pc = "gateReturned",
               !.gate = IF err = NoError THEN "accepted" ELSE "rejected",
               !.gateCtx = ctx, !.gateErr = err]

\* a faulty UnaryServerInterceptor: the gate's error is not looked at
UnaryDispatchIgnoringErr(call) ==
  [call EXCEPT !.pc = "handler", !.handlerCalls = @ + 1,
               !.handlerCtx = call.gateCtx, !.handlerReq = call.req]

\* UnaryServerInterceptor after the gate: return nil, err or call the handler
UnaryDispatch(call) ==
  IF call.gateErr # NoError
  THEN [call EXCEPT !.pc = "returned", !.resp = "nil", !.err = call.gateErr]
  ELSE [call EXCEPT !.pc = "handler", !.handlerCalls = @ + 1,
                    !.handlerCtx = call.gateCtx, !.handlerReq = call.req]

\* a faulty StreamServerInterceptor: WrappedContext keeps the stream's own
\* context
StreamDispatchUnwrapped(call) ==
  IF call.gateErr # NoError
  THEN [call EXCEPT !.pc = "returned", !.resp = "nil", !.err = call.gateErr]
  ELSE LET wrapped == [WrappedContext |-> call.ctx]
       IN  [call EXCEPT !.pc = "handler", !.handlerCalls = @ + 1,
                        !.handlerCtx = wrapped.WrappedContext]

\* StreamServerInterceptor after the gate: return err, or wrap the stream,
\* set its WrappedContext and call the handler with it
StreamDispatch(call) ==
  IF call.gateErr # NoError
  THEN [call EXCEPT !.pc = "returned", !.resp = "nil", !.err = call.gateErr]
  ELSE LET wrapped == [WrappedContext |-> call.gateCtx]
       IN  [call EXCEPT !.pc = "handler", !.handlerCalls = @ + 1,
                        !.handlerCtx = wrapped.WrappedContext]

Dispatch(call) ==
  IF call.kind = "unary" THEN UnaryDispatch(call) ELSE StreamDispatch(call)

\* a faulty gate: the strategy is called whatever the context holds
GateEnterUnchecked(call) ==
  [call EXCEPT !.gateCalls = @ + 1, !.pc = "authenticate", !.authCalls = @ + 1]

\* authenticateAndAuthorizeContext up to its call of a.IsAuthenticated
GateEnter(call) ==
  LET c1 == [call EXCEPT !.gateCalls = @ + 1]
  IN  IF ~call.ctx.hasMD THEN GateReturns(c1, NilCtx, errUnauthorized)
      ELSE IF ~validateIncomingMetadata(call.ctx.authorization)
      THEN GateReturns(c1, NilCtx, errUnauthorized)
      ELSE [c1 EXCEPT !.pc = "authenticate", !.authCalls = @ + 1]

\* a faulty gate: the permissions of a returned AuthResult are checked
\* before the strategy's error is looked at
GateAuthenticatedPermsFirst(call, outcome) ==
  LET c1 == [call EXCEPT !.authResult = outcome.result, !.authErr = outcome.err]
  IN  IF ~outcome.result.isNil
      THEN [c1 EXCEPT !.pc = "authorize", !.permCalls = @ + 1,
                      !.permArgs = [permissions |-> outcome.result.Permissions,
                                    methodName |-> call.methodName]]
      ELSE IF outcome.err # NoError THEN GateReturns(c1, NilCtx, errUnauthorized)
      ELSE [c1 EXCEPT !.pc = "panicked"]

\* a faulty gate: the strategy's error is put into the status message
GateAuthenticatedLeakingErr(call, outcome) ==
  LET c1 == [call EXCEPT !.authResult = outcome.result, !.authErr = outcome.err]
  IN  IF outcome.err # NoError
      THEN GateReturns(c1, NilCtx,
                       StatusError("Unauthenticated", <<outcome.err.code>>))
      ELSE IF outcome.result.isNil THEN [c1 EXCEPT !.pc = "panicked"]
      ELSE [c1 EXCEPT !.pc = "authorize", !.permCalls = @ + 1,
                      !.permArgs = [permissions |-> outcome.result.Permissions,
                                    methodName |-> call.methodName]]

\* authenticateAndAuthorizeContext from the return of a.IsAuthenticated to
\* its call of a.HasPermissions; reading authResult.Permissions through a
\* nil pointer panics
GateAuthenticated(call, outcome) ==
  LET c1 == [call EXCEPT !.authResult = outcome.result, !.authErr = outcome.err]
  IN  IF outcome.err # NoError THEN GateReturns(c1, NilCtx, errUnauthorized)
      ELSE IF outcome.result.isNil THEN [c1 EXCEPT !.pc = "panicked"]
      ELSE [c1 EXCEPT !.pc = "authorize", !.permCalls = @ + 1,
                      !.permArgs = [permissions |-> outcome.result.Permissions,
                                    methodName |-> call.methodName]]

\* a faulty gate: the context is bound before the permission check and
\* returned with the denial
GateAuthorizedKeepingCtx(call, ok) ==
  LET c1 == [call EXCEPT !.permResult = ok]
      ctx == WithAuthValue(call.ctx, call.authResult)
  IN  IF ~ok
      THEN GateReturns(c1, ctx,
                       permissionDeniedStatus(call.authResult, call.methodName))
      ELSE GateReturns(c1, ctx, NoError)

\* a faulty gate: the AuthResult is put into the context that was passed in
GateAuthorizedInPlace(call, ok) ==
  LET c1 == [call EXCEPT !.permResult = ok]
  IN  IF ~ok
      THEN GateReturns(c1, NilCtx,
                       permissionDeniedStatus(call.authResult, call.methodName))
      ELSE LET c2 == [c1 EXCEPT !.ctx = WithAuthValue(call.ctx, call.authResult)]
           IN  GateReturns(c2, c2.ctx, NoError)

\* authenticateAndAuthorizeContext from the return of a.HasPermissions on,
\* json.Marshal returning m if it is called
GateAuthorizedWith(call, ok, m) ==
  LET c1 == [call EXCEPT !.permResult = ok]
  IN  IF ~ok THEN GateReturns(c1, NilCtx, denialStatus(m))
      ELSE GateReturns(c1, WithAuthValue(call.ctx, call.authResult), NoError)

\* authenticateAndAuthorizeContext from the return of a.HasPermissions on
GateAuthorized(call, ok) ==
  GateAuthorizedWith(
    call, ok,
    MarshalOK(PermissionDeniedError(call.authResult.ClientIdentifier,
                                    call.methodName,
                                    call.authResult.Permissions)))

\* the interceptor returns what its handler returned
ReturnFromHandler(call, r) ==
  [call EXCEPT !.pc = "returned", !.handlerResp = r.resp, !.handlerErr = r.err,
               !.resp = r.resp, !.err = r.err, !.msgs = 0]

\* the interceptor goes on once the gate has returned
Continue(call) == IF call.pc = "gateReturned" THEN Dispatch(call) ELSE call

\* no pure function applied yet
NoFn ==
  [op |-> "none", permissionFunc |-> "nil", call |-> IdleCall,
   which |-> "none", got |-> [result |-> NilAuthResult, err |-> NoError],
   version |-> "none", marshalCalls |-> 0, marshal |-> MarshalFailed]

\* the sequences over S of length at most n
SeqsUpTo(S, n) == UNION {[1..k -> S] : k \in 0..n}

\* the permission lists of the pure-function specification
PermissionLists ==
  {NilSlice} \cup {Slice(elems) : elems \in SeqsUpTo(PermissionStrings, MaxPerms)}

(***************************************************************************)
(* The actions.                                                            *)
(***************************************************************************)
NewAuthority ==
  /\ authority.state = "none"
  /\ \E authFunc \in AuthFuncArgs, permissionFunc \in PermissionFuncArgs :
       authority' = NewAuthorityResult(authFunc, permissionFunc)
  /\ UNCHANGED <<calls, fn>>

UnaryServerInterceptor(c) ==
  /\ authority.state = "ready"
  /\ calls[c].pc = "idle"
  /\ \E ctx \in IncomingContexts, methodName \in CallMethods :
       calls' = [calls EXCEPT ![c] =
                   Continue(GateEnter(EnteredCall("unary", ctx, methodName, "req1")))]
  /\ UNCHANGED <<authority, fn>>

StreamServerInterceptor(c) ==
  /\ authority.state = "ready"
  /\ calls[c].pc = "idle"
  /\ \E ctx \in IncomingContexts, methodName \in CallMethods :
       calls' = [calls EXCEPT ![c] =
                   Continue(GateEnter(EnteredCall("stream", ctx, methodName, "nil")))]
  /\ UNCHANGED <<authority, fn>>

\* a faulty authority: the strategy's result is kept in a field of the
\* authority, from which every call waiting for its own result takes it
IsAuthenticatedReturnsShared(c) ==
  /\ calls[c].pc = "authenticate"
  /\ \E outcome \in AuthOutcomes :
       calls' = [d \in CallIds |->
                   IF calls[d].pc = "authenticate"
                   THEN Continue(GateAuthenticated(calls[d], outcome))
                   ELSE calls[d]]
  /\ UNCHANGED <<authority, fn>>

\* the authentication strategy returns
IsAuthenticatedReturns(c) ==
  /\ calls[c].pc = "authenticate"
  /\ \E outcome \in AuthOutcomes :
       calls' = [calls EXCEPT ![c] = Continue(GateAuthenticated(calls[c], outcome))]
  /\ UNCHANGED <<authority, fn>>

\* a faulty authority: it remembers that it let a call in, and denies every
\* later call whatever the permission strategy returns
HasPermissionsReturnsOnce(c) ==
  /\ calls[c].pc = "authorize"
  /\ \E ok \in HasPermissionsResults(authority.HasPermissions,
                                     calls[c].permArgs.permissions,
                                     calls[c].permArgs.methodName) :
       LET first == \A d \in CallIds : calls[d].gate # "accepted"
           after == Continue(GateAuthorized(calls[c], ok /\ first))
       IN  calls' = [calls EXCEPT ![c] = [after EXCEPT !.permResult = ok]]
  /\ UNCHANGED <<authority, fn>>

\* the permission strategy returns
HasPermissionsReturns(c) ==
  /\ calls[c].pc = "authorize"
  /\ \E ok \in HasPermissionsResults(authority.HasPermissions,
                                     calls[c].permArgs.permissions,
                                     calls[c].permArgs.methodName) :
       calls' = [calls EXCEPT ![c] = Continue(GateAuthorized(calls[c], ok))]
  /\ UNCHANGED <<authority, fn>>

\* the stream handler receives or sends a message on the wrapped stream
StreamMessage(c) ==
  /\ calls[c].pc = "handler"
  /\ calls[c].kind = "stream"
  /\ calls[c].msgs < MaxMsgs
  /\ calls' = [calls EXCEPT ![c].msgs = @ + 1]
  /\ UNCHANGED <<authority, fn>>

\* the handler returns, and the interceptor returns what it returned; the
\* stream ends with its handler
HandlerReturns(c) ==
  /\ calls[c].pc = "handler"
  /\ \E r \in (IF calls[c].kind = "unary" THEN UnaryHandlerReturns
               ELSE StreamHandlerReturns) :
       calls' = [calls EXCEPT ![c] = ReturnFromHandler(calls[c], r)]
  /\ UNCHANGED <<authority, fn>>

Init ==
  /\ authority = NoAuthority
  /\ calls = [c \in CallIds |-> IdleCall]
  /\ fn = NoFn

Next ==
  \/ NewAuthority
  \/ \E c \in CallIds :
       \/ UnaryServerInterceptor(c)
       \/ StreamServerInterceptor(c)
       \/ IsAuthenticatedReturns(c)
       \/ HasPermissionsReturns(c)
       \/ StreamMessage(c)
       \/ HandlerReturns(c)

Spec == Init /\ [][Next]_vars

\* the strategies and the handlers return when they are called: each of
\* the three returns is taken once it stays possible
Fairness ==
  \A c \in CallIds :
    /\ WF_vars(IsAuthenticatedReturns(c))
    /\ WF_vars(HasPermissionsReturns(c))
    /\ WF_vars(HandlerReturns(c))

SpecLive == Init /\ [][Next]_vars /\ Fairness

(***************************************************************************)
(* The earlier Authority struct of the repository: a struct literal with   *)
(* an optional HasPermissions, no check of the authorization values, the   *)
(* context bound before the permission check, and a NoPermissions that     *)
(* lets every client in.  Its interceptors are those above.                *)
(***************************************************************************)
\* the earlier NoPermissions
LegacyNoPermissions(permissions, methodName) == TRUE

\* the results a call of a.isAuthorized(user, methodName) can have
isAuthorizedResults(f, permissions, methodName) ==
  CASE f = "nil" -> {defaultHasPermissions(permissions, methodName)}
    [] f = "NoPermissions" -> {LegacyNoPermissions(permissions, methodName)}
    [] OTHER -> BOOLEAN

\* the earlier authenticateAndAuthorizeContext up to its call of
\* a.IsAuthenticated
LegacyGateEnter(call) ==
  LET c1 == [call EXCEPT !.gateCalls = @ + 1]
  IN  IF ~call.ctx.hasMD THEN GateReturns(c1, NilCtx, errUnauthorized)
      ELSE [c1 EXCEPT !.pc = "authenticate", !.authCalls = @ + 1]

\* from the return of a.IsAuthenticated to the call of a.isAuthorized;
\* logging authResult.ClientIdentifier through a nil pointer panics
LegacyGateAuthenticated(call, outcome) ==
  LET c1 == [call EXCEPT !.authResult = outcome.result, !.authErr = outcome.err]
  IN  IF outcome.err # NoError THEN GateReturns(c1, NilCtx, errUnauthorized)
      ELSE IF outcome.result.isNil THEN [c1 EXCEPT !.pc = "panicked"]
      ELSE [c1 EXCEPT !.pc = "authorize", !.permCalls = @ + 1,
                      !.permArgs = [permissions |-> outcome.result.Permissions,
                                    methodName |-> call.methodName]]

\* from the return of a.isAuthorized on, json.Marshal returning m if it is
\* called: ctx holds the AuthResult since before the check, the denial is
\* returned when isAuthorized is true, and the error of json.Marshal is
\* logged, the denial going on with string(b)
LegacyGateAuthorizedWith(call, ok, m) ==
  LET c1 == [call EXCEPT !.permResult = ok]
      ctx == WithAuthValue(call.ctx, call.authResult)
  IN  IF ok THEN GateReturns(c1, NilCtx, denialStatus(m))
      ELSE GateReturns(c1, ctx, NoError)

\* from the return of a.isAuthorized on
LegacyGateAuthorized(call, ok) ==
  LegacyGateAuthorizedWith(
    call, ok,
    MarshalOK(PermissionDeniedError(call.authResult.ClientIdentifier,
                                    call.methodName,
                                    call.authResult.Permissions)))

LegacyUnaryServerInterceptor(c) ==
  /\ calls[c].pc = "idle"
  /\ \E ctx \in IncomingContexts, methodName \in CallMethods :
       calls' = [calls EXCEPT ![c] =
                   Continue(LegacyGateEnter(EnteredCall("unary", ctx, methodName,
                                                        "req1")))]
  /\ UNCHANGED <<authority, fn>>

LegacyStreamServerInterceptor(c) ==
  /\ calls[c].pc = "idle"
  /\ \E ctx \in IncomingContexts, methodName \in CallMethods :
       calls' = [calls EXCEPT ![c] =
                   Continue(LegacyGateEnter(EnteredCall("stream", ctx, methodName,
                                                        "nil")))]
  /\ UNCHANGED <<authority, fn>>

LegacyIsAuthenticatedReturns(c) ==
  /\ calls[c].pc = "authenticate"
  /\ \E outcome \in AuthOutcomes :
       calls' = [calls EXCEPT ![c] =
                   Continue(LegacyGateAuthenticated(calls[c], outcome))]
  /\ UNCHANGED <<authority, fn>>

LegacyIsAuthorizedReturns(c) ==
  /\ calls[c].pc = "authorize"
  /\ \E ok \in isAuthorizedResults(authority.HasPermissions,
                                   calls[c].permArgs.permissions,
                                   calls[c].permArgs.methodName) :
       calls' = [calls EXCEPT ![c] = Continue(LegacyGateAuthorized(calls[c], ok))]
  /\ UNCHANGED <<authority, fn>>

\* &Authority{IsAuthenticated: authFunc, HasPermissions: nil or a function}
InitLegacy ==
  /\ authority \in {[state |-> "ready", IsAuthenticated |-> "authFunc",
                      HasPermissions |-> f] : f \in PermissionFuncArgs}
  /\ calls = [c \in CallIds |-> IdleCall]
  /\ fn = NoFn

NextLegacy ==
  \E c \in CallIds :
    \/ LegacyUnaryServerInterceptor(c)
    \/ LegacyStreamServerInterceptor(c)
    \/ LegacyIsAuthenticatedReturns(c)
    \/ LegacyIsAuthorizedReturns(c)
    \/ StreamMessage(c)
    \/ HandlerReturns(c)

SpecLegacy == InitLegacy /\ [][NextLegacy]_vars

(***************************************************************************)
(* The permission check and the denial as functions of their inputs: an    *)
(* Authority made by NewAuthority(authFunc, permissionFunc) authorizes a    *)
(* client (id, permissions) for methodName.                                *)
(***************************************************************************)
FnAuthorize ==
  \E permissionFunc \in {"nil", "NoPermissions"}, id \in ClientIdentifiers,
     permissions \in PermissionLists, methodName \in Methods :
    LET a == NewAuthorityResult("authFunc", permissionFunc)
        entered ==
          GateEnter(EnteredCall("unary", Ctx(TRUE, <<"bearer">>, NilAuthResult),
                                methodName, "req1"))
        authenticated ==
          GateAuthenticated(entered,
                            [result |-> AuthResult(id, 1, permissions),
                             err |-> NoError])
    IN  /\ fn.op = "none"
        /\ \E ok \in HasPermissionsResults(a.HasPermissions,
                                            authenticated.permArgs.permissions,
                                            authenticated.permArgs.methodName) :
             fn' = [NoFn EXCEPT !.op = "authorize",
                                !.permissionFunc = permissionFunc,
                                !.call = GateAuthorized(authenticated, ok)]
        /\ UNCHANGED <<authority, calls>>

SpecFn == Init /\ [][FnAuthorize]_vars

(***************************************************************************)
(* The contexts of one call: authenticateAndAuthorizeContext run on an     *)
(* incoming context, and GetAuthResult then called on the context that     *)
(* went in or on the context that came out.                                *)
(***************************************************************************)
\* authenticateAndAuthorizeContext from entry to return, the strategies
\* returning outcome and ok when they are called
Gate(call, outcome, ok) ==
  LET entered == GateEnter(call)
      authenticated ==
        IF entered.pc = "authenticate" THEN GateAuthenticated(entered, outcome)
        ELSE entered
  IN  IF authenticated.pc = "authorize" THEN GateAuthorized(authenticated, ok)
      ELSE authenticated

CtxGate ==
  /\ fn.op = "none"
  /\ \E permissionFunc \in PermissionFuncArgs, kind \in {"unary", "stream"},
        ctx \in IncomingContexts, methodName \in Methods,
        outcome \in AuthOutcomes, b \in BOOLEAN :
       LET a == NewAuthorityResult("authFunc", permissionFunc)
           ok == IF outcome.result.isNil THEN b
                 ELSE CHOOSE r \in HasPermissionsResults(
                                     a.HasPermissions,
                                     outcome.result.Permissions, methodName) :
                        a.HasPermissions = "custom" => r = b
       IN  fn' = [NoFn EXCEPT !.op = "gate",
                              !.permissionFunc = permissionFunc,
                              !.call = Gate(EnteredCall(kind, ctx, methodName,
                                                        "req1"),
                                            outcome, ok)]
  /\ UNCHANGED <<authority, calls>>

\* GetAuthResult(ctx) on the context the call came with, or on the context
\* authenticateAndAuthorizeContext returned
CtxGetAuthResult ==
  /\ fn.op = "gate"
  /\ \E which \in {"original", "returned"} :
       fn' = [fn EXCEPT !.op = "got", !.which = which,
                        !.got = GetAuthResult(IF which = "original"
                                              THEN fn.call.ctx
                                              ELSE fn.call.gateCtx)]
  /\ UNCHANGED <<authority, calls>>

(***************************************************************************)
(* The denial as a function of what json.Marshal returns: the permission   *)
(* decision of the authority struct and of the earlier Authority struct    *)
(* for a client (id, permissions) and methodName, the strategy returning   *)
(* ok and json.Marshal, where it is called, succeeding or not.             *)
(***************************************************************************)
\* the call up to the return of the permission strategy
AtAuthorize(id, permissions, methodName) ==
  GateAuthenticated(
    GateEnter(EnteredCall("unary", Ctx(TRUE, <<"bearer">>, NilAuthResult),
                          methodName, "req1")),
    [result |-> AuthResult(id, 1, permissions), err |-> NoError])

LegacyAtAuthorize(id, permissions, methodName) ==
  LegacyGateAuthenticated(
    LegacyGateEnter(EnteredCall("unary",
                                Ctx(TRUE, <<"bearer">>, NilAuthResult),
                                methodName, "req1")),
    [result |-> AuthResult(id, 1, permissions), err |-> NoError])

DenyMarshal ==
  /\ fn.op = "none"
  /\ \E id \in ClientIdentifiers, permissions \in PermissionLists,
        methodName \in Methods, ok \in BOOLEAN, failed \in BOOLEAN :
       LET call == AtAuthorize(id, permissions, methodName)
           m == IF failed THEN MarshalFailed
                ELSE MarshalOK(PermissionDeniedError(id, methodName, permissions))
       IN  fn' = [NoFn EXCEPT !.op = "deny", !.version = "authority",
                              !.permissionFunc = "custom",
                              !.call = GateAuthorizedWith(call, ok, m),
                              !.marshalCalls = IF ~ok THEN 1 ELSE 0,
                              !.marshal = IF ~ok THEN m ELSE MarshalFailed]
  /\ UNCHANGED <<authority, calls>>

LegacyDenyMarshal ==
  /\ fn.op = "none"
  /\ \E id \in ClientIdentifiers, permissions \in PermissionLists,
        methodName \in Methods, ok \in BOOLEAN, failed \in BOOLEAN :
       LET call == LegacyAtAuthorize(id, permissions, methodName)
           m == IF failed THEN MarshalFailed
                ELSE MarshalOK(PermissionDeniedError(id, methodName, permissions))
       IN  fn' = [NoFn EXCEPT !.op = "deny", !.version = "Authority",
                              !.permissionFunc = "custom",
                              !.call = LegacyGateAuthorizedWith(call, ok, m),
                              !.marshalCalls = IF ok THEN 1 ELSE 0,
                              !.marshal = IF ok THEN m ELSE MarshalFailed]
  /\ UNCHANGED <<authority, calls>>

NextDeny == DenyMarshal \/ LegacyDenyMarshal

SpecDeny == Init /\ [][NextDeny]_vars

NextCtx == CtxGate \/ CtxGetAuthResult

SpecCtx == Init /\ [][NextCtx]_vars

(***************************************************************************)
(* The outcomes of authenticateAndAuthorizeContext.                        *)
(***************************************************************************)
\* the AuthResult bound in a context derived from the call's own
Accepted(call) ==
  /\ call.gateErr = NoError
  /\ ~call.gateCtx.isNil
  /\ ~call.authResult.isNil
  /\ call.gateCtx = WithAuthValue(call.ctx, call.authResult)

\* no context, and the Unauthenticated status with the fixed message
Unauthenticated(call) ==
  /\ call.gateCtx = NilCtx
  /\ call.gateErr.kind = "status"
  /\ call.gateErr.code = "Unauthenticated"
  /\ call.gateErr.msg = UnauthenticatedError

\* the denial payload of the call: its principal, its method name
DenialPayload(call) ==
  PermissionDeniedError(call.authResult.ClientIdentifier, call.methodName,
                        call.authResult.Permissions)

\* no context, and a PermissionDenied status made by status.Errorf from the
\* JSON of the call's denial payload
Denied(call) ==
  /\ call.gateCtx = NilCtx
  /\ ~call.authResult.isNil
  /\ call.gateErr.kind = "status"
  /\ call.gateErr.code = "PermissionDenied"
  /\ call.gateErr.msg = Sprintf(Marshal(DenialPayload(call)))

(***************************************************************************)
(* C1: once authenticateAndAuthorizeContext has returned for a call, its   *)
(* result is exactly one of: a context with the principal bound and no     *)
(* error; no context and the Unauthenticated status with the fixed         *)
(* message; no context and a PermissionDenied status carrying the denial   *)
(* payload (the three exclude one another by their status code).  It       *)
(* returns a context or an error, never both, never neither.               *)
(* A call past the gate has such a result, and the only call that ends     *)
(* without one is a call whose authentication strategy returned neither a  *)
(* failure nor a principal.                                                *)
(***************************************************************************)
C1_ThreeOutcomes ==
  \A c \in CallIds :
    LET call == calls[c]
    IN  /\ call.gate # "none" =>
             /\ CASE call.gateErr.code = "OK" -> Accepted(call)
                  [] call.gateErr.code = "Unauthenticated" -> Unauthenticated(call)
                  [] call.gateErr.code = "PermissionDenied" -> Denied(call)
                  [] OTHER -> FALSE
             /\ call.gateCtx.isNil <=> call.gateErr # NoError
             /\ call.gateErr.kind \in {"nil", "status"}
        /\ call.pc \in {"handler", "returned"} => call.gate # "none"
        /\ call.pc = "panicked" =>
             call.authErr = NoError /\ call.authResult.isNil

\* one call was accepted and another was denied
C1_Witness ==
  \E c1, c2 \in CallIds :
    /\ calls[c1].gate = "accepted" /\ Accepted(calls[c1])
    /\ calls[c2].gate = "rejected" /\ Denied(calls[c2])

(***************************************************************************)
(* C2: UnaryServerInterceptor calls the handler at most once, and only     *)
(* after the gate accepted the call: then exactly once, with the context   *)
(* the gate returned, which carries the principal, and with the call's     *)
(* request, and what the handler returns is what the interceptor returns.  *)
(* After a rejection the handler is not called and the interceptor returns *)
(* a nil response and the gate's error.                                    *)
(***************************************************************************)
C2_UnaryHandler ==
  \A c \in CallIds :
    LET call == calls[c]
    IN  call.kind = "unary" =>
          /\ call.handlerCalls <= 1
          /\ call.handlerCalls = 1 <=> call.gate = "accepted"
          /\ call.handlerCalls = 1 =>
               /\ call.handlerCtx = call.gateCtx
               /\ GetAuthResult(call.handlerCtx) =
                    [result |-> call.authResult, err |-> NoError]
               /\ ~call.authResult.isNil
               /\ call.handlerReq = call.req
               /\ call.req = "req1"
          /\ (call.gate = "accepted" /\ call.pc = "returned") =>
               call.resp = call.handlerResp /\ call.err = call.handlerErr
          /\ call.gate = "rejected" =>
               /\ call.pc = "returned"
               /\ call.resp = "nil"
               /\ call.err = call.gateErr
               /\ call.err.code \in {"Unauthenticated", "PermissionDenied"}

\* a unary call whose handler ran with the principal and returned a response
C2_Witness ==
  \E c \in CallIds :
    /\ calls[c].kind = "unary"
    /\ calls[c].pc = "returned"
    /\ calls[c].handlerCalls = 1
    /\ ~calls[c].handlerCtx.auth.isNil
    /\ calls[c].resp = "resp1"

(***************************************************************************)
(* C3: StreamServerInterceptor runs the gate once per stream, before the   *)
(* stream handler is entered, and no message of the stream runs it or a    *)
(* strategy again.  The handler is entered only after the gate accepted,   *)
(* with a stream whose Context() is the context the gate returned; after a *)
(* rejection it is not entered and the gate's error is returned.           *)
(***************************************************************************)
C3_StreamOnce ==
  \A c \in CallIds :
    LET call == calls[c]
    IN  call.kind = "stream" =>
          /\ call.gateCalls = 1
          /\ call.authCalls <= 1 /\ call.permCalls <= 1
          /\ call.handlerCalls <= 1
          /\ call.handlerCalls = 1 <=> call.gate = "accepted"
          /\ call.handlerCalls = 1 =>
               /\ call.authCalls = 1 /\ call.permCalls = 1
               /\ call.handlerCtx = call.gateCtx
               /\ GetAuthResult(call.handlerCtx) =
                    [result |-> call.authResult, err |-> NoError]
               /\ ~call.authResult.isNil
          /\ call.msgs > 0 =>
               /\ call.pc = "handler"
               /\ call.gateCalls = 1 /\ call.authCalls = 1 /\ call.permCalls = 1
          /\ call.gate = "rejected" =>
               /\ call.pc = "returned"
               /\ call.msgs = 0
               /\ call.err = call.gateErr

\* a stream whose handler holds the principal has moved a message
C3_Witness ==
  \E c \in CallIds :
    /\ calls[c].kind = "stream"
    /\ calls[c].pc = "handler"
    /\ calls[c].msgs >= 1
    /\ ~calls[c].handlerCtx.auth.isNil

(***************************************************************************)
(* C4: a context that carries a principal under the auth key comes from a  *)
(* call whose authentication strategy succeeded and whose permission       *)
(* strategy returned true for the call's method name; on a failure path    *)
(* (no metadata, a wrong number of authorization values, a failed          *)
(* authentication, a denied permission) no context with the principal is   *)
(* returned or handed to a handler.                                        *)
(***************************************************************************)
C4_PrincipalOnlyAfterBoth ==
  \A c \in CallIds :
    LET call == calls[c]
        failed ==
          \/ ~call.ctx.hasMD
          \/ call.authErr # NoError
          \/ call.permCalls = 1 /\ call.pc # "authorize" /\ ~call.permResult
    IN  /\ \A ctx \in {call.gateCtx, call.handlerCtx} :
             ~ctx.auth.isNil =>
               /\ call.authCalls = 1 /\ call.authErr = NoError
               /\ call.permCalls = 1 /\ call.permResult
               /\ call.permArgs.methodName = call.methodName
               /\ ctx.auth = call.authResult
        /\ (call.pc # "idle" /\ failed) =>
             /\ call.gateCtx.auth.isNil
             /\ call.handlerCtx.auth.isNil
             /\ call.handlerCalls = 0

\* the same, with the check of the authorization values that only the
\* later authority struct makes
C4_PrincipalOnlyAfterBothValidated ==
  /\ C4_PrincipalOnlyAfterBoth
  /\ \A c \in CallIds :
       (calls[c].pc # "idle" /\ Len(calls[c].ctx.authorization) # 1) =>
         /\ calls[c].gateCtx.auth.isNil
         /\ calls[c].handlerCtx.auth.isNil
         /\ calls[c].handlerCalls = 0

(***************************************************************************)
(* C5: within a call the permission strategy is called only once the       *)
(* authentication strategy has returned a principal without an error, and  *)
(* with that principal's permissions and the call's method name; when      *)
(* authentication failed or was not attempted it is not called.  Each      *)
(* strategy is called at most once per call.                               *)
(***************************************************************************)
C5_PermissionAfterAuthentication ==
  \A c \in CallIds :
    LET call == calls[c]
    IN  /\ call.authCalls <= 1 /\ call.permCalls <= 1
        /\ call.permCalls = 1 =>
             /\ call.authCalls = 1
             /\ call.pc # "authenticate"
             /\ call.authErr = NoError
             /\ ~call.authResult.isNil
             /\ call.permArgs = [permissions |-> call.authResult.Permissions,
                                 methodName |-> call.methodName]
        /\ (call.authCalls = 0 \/ call.authErr # NoError) => call.permCalls = 0
        /\ call.pc = "authorize" => call.permCalls = 1

\* in one call the permission strategy is running on the authenticated
\* principal's permissions, in another authentication failed and it never ran
C5_Witness ==
  \E c1, c2 \in CallIds :
    /\ calls[c1].pc = "authorize" /\ calls[c1].permCalls = 1
    /\ calls[c1].permArgs.permissions = Slice(<<sM>>)
    /\ calls[c2].authCalls = 1 /\ calls[c2].authErr # NoError
    /\ ~calls[c2].authResult.isNil
    /\ calls[c2].pc = "returned" /\ calls[c2].permCalls = 0

(***************************************************************************)
(* C6: a call whose context has no incoming metadata gets, from the gate,  *)
(* the status Unauthenticated with the message UnauthenticatedError, and   *)
(* neither strategy nor the handler is called for it.                      *)
(***************************************************************************)
C6_NoMetadata ==
  \A c \in CallIds :
    LET call == calls[c]
    IN  (call.pc # "idle" /\ ~call.ctx.hasMD) =>
          /\ call.gate = "rejected"
          /\ call.gateCtx = NilCtx
          /\ call.gateErr.kind = "status"
          /\ call.gateErr.code = "Unauthenticated"
          /\ call.gateErr.msg = UnauthenticatedError
          /\ call.authCalls = 0 /\ call.permCalls = 0 /\ call.handlerCalls = 0
          /\ call.pc = "returned" /\ call.err = call.gateErr

\* a unary and a stream call without metadata have been rejected
C6_Witness ==
  \E c1, c2 \in CallIds :
    /\ calls[c1].kind = "unary" /\ calls[c2].kind = "stream"
    /\ \A c \in {c1, c2} :
         /\ ~calls[c].ctx.hasMD
         /\ calls[c].pc = "returned"
         /\ calls[c].gateErr.code = "Unauthenticated"

\* why the gate refused to authenticate a call, "" if it did not
UnauthenticatedCause(call) ==
  IF call.gate # "rejected" THEN ""
  ELSE IF ~call.ctx.hasMD THEN "no metadata"
  ELSE IF Len(call.ctx.authorization) # 1 THEN "authorization values"
  ELSE IF call.authErr # NoError THEN "strategy error"
  ELSE ""

(***************************************************************************)
(* C7: any two calls rejected as unauthenticated, be it for missing        *)
(* metadata, for a wrong number of authorization values or for any error   *)
(* of the authentication strategy, get the same error: the status          *)
(* Unauthenticated with the message UnauthenticatedError.                  *)
(***************************************************************************)
C7_SameUnauthenticatedError ==
  \A c1, c2 \in CallIds :
    (UnauthenticatedCause(calls[c1]) # "" /\ UnauthenticatedCause(calls[c2]) # "") =>
      /\ calls[c1].gateErr = calls[c2].gateErr
      /\ calls[c1].err = calls[c2].err
      /\ calls[c1].gateErr.kind = "status"
      /\ calls[c1].gateErr.code = "Unauthenticated"
      /\ calls[c1].gateErr.msg = UnauthenticatedError

\* two calls rejected for different reasons, the strategy having failed with
\* one error in one of them
C7_Witness ==
  \E c1, c2 \in CallIds :
    /\ UnauthenticatedCause(calls[c1]) = "strategy error"
    /\ calls[c1].authErr = errInvalidToken
    /\ UnauthenticatedCause(calls[c2]) \in {"no metadata", "authorization values"}
    /\ calls[c1].pc = "returned" /\ calls[c2].pc = "returned"

(***************************************************************************)
(* C8: under the strategy NewAuthority binds for a nil permissionFunc, a   *)
(* permission list P authorizes a method name M exactly when some element  *)
(* of P equals M.  An empty or nil P is denied; a prefix, a wildcard or a  *)
(* case variant of M in P does not authorize M.                            *)
(***************************************************************************)
C8_DefaultExactMatch ==
  (fn.op = "authorize" /\ fn.permissionFunc = "nil") =>
    LET P == fn.call.permArgs.permissions.elems
        M == fn.call.methodName
    IN  /\ fn.call.permResult <=> M \in {P[i] : i \in 1..Len(P)}
        /\ Len(P) = 0 => ~fn.call.permResult
        /\ (M = sM /\ \A i \in 1..Len(P) : P[i] \in {sSlash, sStar, sLowerM}) =>
             ~fn.call.permResult
        /\ fn.call.permResult <=> fn.call.gate = "accepted"

\* the method is found behind its case variant; its prefix and its wildcard
\* alone would not do
C8_Witness ==
  /\ fn.op = "authorize" /\ fn.permissionFunc = "nil"
  /\ fn.call.methodName = sM
  /\ fn.call.permArgs.permissions = Slice(<<sLowerM, sM>>)
  /\ fn.call.permResult
  /\ ~defaultHasPermissions(Slice(<<sSlash, sStar>>), sM)

C10_DenialMessageIsJSON ==
  \A c \in CallIds :
    LET call == calls[c]
    IN  (call.permCalls = 1 /\ call.pc # "authorize" /\ ~call.permResult) =>
          /\ call.gateErr.kind = "status"
          /\ call.gateErr.code = "PermissionDenied"
          /\ call.gateErr.msg = Marshal(DenialPayload(call))


(***************************************************************************)
(* C11: GetAuthResult on a context into which no Authority bound a         *)
(* principal (the context a call came with, with or without incoming       *)
(* metadata, whether the call was then accepted, rejected or ended in a    *)
(* panic) returns the nil *AuthResult together with                        *)
(* ErrUnauthenticatedContext: never an AuthResult, never a panic.          *)
(***************************************************************************)
C11_UnboundContext ==
  (fn.op = "got" /\ fn.which = "original") =>
    /\ fn.got.result = NilAuthResult
    /\ fn.got.err = ErrUnauthenticatedContext

\* GetAuthResult was called on the metadata-carrying context of a call that
\* was rejected with PermissionDenied
C11_Witness ==
  /\ fn.op = "got" /\ fn.which = "original"
  /\ fn.call.ctx.hasMD
  /\ fn.call.gate = "rejected"
  /\ fn.call.gateErr.code = "PermissionDenied"
  /\ fn.got.err = ErrUnauthenticatedContext

(***************************************************************************)
(* C12: for every call authenticateAndAuthorizeContext accepts,            *)
(* GetAuthResult on the context it returned succeeds and yields the        *)
(* AuthResult the authentication strategy returned for that call: same     *)
(* identifier, same timestamp, same permission list.                       *)
(***************************************************************************)
C12_PrincipalRoundTrip ==
  (fn.op = "got" /\ fn.which = "returned" /\ fn.call.gate = "accepted") =>
    /\ fn.got.err = NoError
    /\ ~fn.got.result.isNil
    /\ fn.got.result = fn.call.authResult
    /\ fn.got.result.ClientIdentifier = fn.call.authResult.ClientIdentifier
    /\ fn.got.result.Timestamp = fn.call.authResult.Timestamp
    /\ fn.got.result.Permissions = fn.call.authResult.Permissions

\* the principal with two permissions, one of them with a '%', came back
\* from the context of an accepted call
C12_Witness ==
  /\ fn.op = "got" /\ fn.which = "returned"
  /\ fn.call.gate = "accepted"
  /\ fn.call.authCalls = 1 /\ fn.call.permCalls = 1
  /\ fn.got.err = NoError
  /\ fn.got.result = AuthResult(idQuote, 1, Slice(<<sSlash, sPctM>>))

(***************************************************************************)
(* C13: NewAuthority panics on a nil authFunc and constructs nothing, so   *)
(* no interceptor ever runs; on a nil permissionFunc it binds              *)
(* defaultHasPermissions.  Every Authority it returns holds a non-nil      *)
(* IsAuthenticated and a non-nil HasPermissions in every state, and every  *)
(* strategy call of an interceptor is a call of a non-nil function.        *)
(***************************************************************************)
C13_StrategiesNeverNil ==
  /\ authority.state = "panic" =>
       /\ authority = PanicAuthority
       /\ \A c \in CallIds : calls[c] = IdleCall
  /\ authority.state = "ready" =>
       /\ authority.IsAuthenticated = "authFunc"
       /\ authority.HasPermissions \in
            {"defaultHasPermissions", "NoPermissions", "custom"}
  /\ \A c \in CallIds :
       /\ calls[c].pc # "idle" => authority.state = "ready"
       /\ calls[c].authCalls > 0 => authority.IsAuthenticated # "nil"
       /\ calls[c].permCalls > 0 => authority.HasPermissions # "nil"

\* an Authority made with a nil permissionFunc has called the default
\* strategy for a call
C13_Witness ==
  /\ authority.state = "ready"
  /\ authority.HasPermissions = "defaultHasPermissions"
  /\ \E c \in CallIds : calls[c].authCalls = 1 /\ calls[c].permCalls = 1

(***************************************************************************)
(* C14: authenticateAndAuthorizeContext never changes the context it is    *)
(* given.  No step of a call in flight alters the call's own context;      *)
(* after every step that context still has no AuthResult (GetAuthResult    *)
(* on it returns ErrUnauthenticatedContext) and, when the call was         *)
(* accepted, the AuthResult is in the derived context only, which has the  *)
(* same incoming metadata.                                                 *)
(***************************************************************************)
C14_InputContextUnchanged ==
  [][\A c \in CallIds :
       /\ calls[c].pc # "idle" => calls'[c].ctx = calls[c].ctx
       /\ calls'[c].pc # "idle" =>
            /\ calls'[c].ctx \in IncomingContexts
            /\ GetAuthResult(calls'[c].ctx) =
                 [result |-> NilAuthResult, err |-> ErrUnauthenticatedContext]
       /\ calls'[c].gate = "accepted" =>
            /\ calls'[c].gateCtx # calls'[c].ctx
            /\ calls'[c].gateCtx.hasMD = calls'[c].ctx.hasMD
            /\ calls'[c].gateCtx.authorization = calls'[c].ctx.authorization
            /\ GetAuthResult(calls'[c].gateCtx).err = NoError
       /\ calls'[c].gate = "rejected" => calls'[c].gateCtx = NilCtx]_vars

\* an accepted call has returned: its own context without an AuthResult,
\* the derived one with it
C14_Witness ==
  \E c \in CallIds :
    /\ calls[c].pc = "returned"
    /\ calls[c].gate = "accepted"
    /\ calls[c].ctx = Ctx(TRUE, <<"bearer">>, NilAuthResult)
    /\ calls[c].ctx.auth.isNil
    /\ ~calls[c].gateCtx.auth.isNil

(***************************************************************************)
(* C15: calls through one Authority do not affect one another.  A step of  *)
(* one call changes no other call and never the authority once it is       *)
(* constructed; and however the calls interleave, what the gate returned   *)
(* for a call (accepted, Unauthenticated or PermissionDenied, the context  *)
(* and the AuthResult in it) is what authenticateAndAuthorizeContext       *)
(* yields run alone on that call's context and method name with the        *)
(* results its own strategy calls returned.  The AuthResult in a call's    *)
(* context is the one of that call's own authentication.                   *)
(***************************************************************************)
C15_CallsIndependent ==
  [][/\ authority.state = "ready" => authority' = authority
     /\ \A c, d \in CallIds :
          (c # d /\ calls'[c] # calls[c]) => calls'[d] = calls[d]
     /\ \A c \in CallIds : \A call \in {calls'[c]} :
          (call # calls[c] /\ call.gate # "none") =>
            \A alone \in {Gate(EnteredCall(call.kind, call.ctx,
                                            call.methodName, call.req),
                                [result |-> call.authResult,
                                 err |-> call.authErr],
                                call.permResult)} :
              /\ call.gate = alone.gate
              /\ call.gateCtx = alone.gateCtx
              /\ call.gateErr = alone.gateErr
              /\ call.gate = "accepted" =>
                   GetAuthResult(call.gateCtx).result = call.authResult]_vars

\* two calls in flight at once through the same Authority, one accepted
\* for one principal and in its handler, the other denied for another
C15_Witness ==
  \E c, d \in CallIds :
    /\ c # d
    /\ calls[c].pc = "handler" /\ calls[c].gate = "accepted"
    /\ calls[c].gateCtx.auth = AuthResult(idC1, 1, Slice(<<sM>>))
    /\ calls[d].gate = "rejected"
    /\ calls[d].gateErr.code = "PermissionDenied"
    /\ calls[d].authResult = AuthResult(idPct, 2, NilSlice)

(***************************************************************************)
(* C16: the decision is a function of the call's inputs.  Any two runs of  *)
(* authenticateAndAuthorizeContext with the same context (same metadata)   *)
(* and the same method name, in which the strategies returned the same     *)
(* results, end the same way: same acceptance or rejection, same status    *)
(* code, same message, same returned context, whichever ran first and      *)
(* whatever other calls ran before or in between.                          *)
(***************************************************************************)
C16_DecisionDeterministic ==
  \A c, d \in CallIds :
    LET x == calls[c]
        y == calls[d]
    IN  (/\ x.gate # "none" /\ y.gate # "none"
         /\ x.ctx = y.ctx /\ x.methodName = y.methodName
         /\ x.authResult = y.authResult /\ x.authErr = y.authErr
         /\ x.permResult = y.permResult) =>
          /\ x.gate = y.gate
          /\ x.gateErr.kind = y.gateErr.kind
          /\ x.gateErr.code = y.gateErr.code
          /\ x.gateErr.msg = y.gateErr.msg
          /\ x.gateCtx = y.gateCtx
          /\ x.authCalls = y.authCalls /\ x.permCalls = y.permCalls

\* the same request made twice, the first run over before the second
\* began: both accepted for the same principal
C16_Witness ==
  \E c, d \in CallIds :
    /\ c # d
    /\ calls[c].pc = "returned" /\ calls[d].pc = "handler"
    /\ calls[c].ctx = calls[d].ctx /\ calls[c].methodName = calls[d].methodName
    /\ calls[c].authResult = AuthResult(idC1, 1, Slice(<<sM>>))
    /\ calls[d].authResult = calls[c].authResult
    /\ calls[c].gate = "accepted" /\ calls[d].gate = "accepted"

(***************************************************************************)
(* C17: a call whose metadata holds no value, or more than one value, of   *)
(* the authorization header is rejected with the Unauthenticated status    *)
(* and the fixed message without the authentication strategy being         *)
(* invoked, whatever that strategy would have returned; the strategy is    *)
(* invoked only for metadata with exactly one authorization value.         *)
(***************************************************************************)
C17_ExactlyOneAuthorizationValue ==
  \A c \in CallIds :
    LET call == calls[c]
        n == Len(call.ctx.authorization)
    IN  /\ (call.pc # "idle" /\ call.ctx.hasMD /\ n # 1) =>
             /\ call.authCalls = 0 /\ call.permCalls = 0
             /\ call.handlerCalls = 0
             /\ call.pc = "returned"
             /\ call.gate = "rejected"
             /\ call.gateCtx = NilCtx
             /\ call.gateErr = StatusError("Unauthenticated",
                                           UnauthenticatedError)
             /\ call.err = call.gateErr
        /\ call.authCalls > 0 => (call.ctx.hasMD /\ n = 1)

\* one call with two authorization values and one with none, both turned
\* away without the strategy having been asked
C17_Witness ==
  \E c, d \in CallIds :
    /\ calls[c].ctx = Ctx(TRUE, <<"bearer", "bearer">>, NilAuthResult)
    /\ calls[d].ctx = Ctx(TRUE, <<>>, NilAuthResult)
    /\ calls[c].pc = "returned" /\ calls[d].pc = "returned"
    /\ calls[c].authCalls = 0 /\ calls[d].authCalls = 0
    /\ calls[c].gateErr.code = "Unauthenticated"
    /\ calls[d].gateErr.code = "Unauthenticated"

(***************************************************************************)
(* C18: if json.Marshal of the denial payload fails, the denial is         *)
(* returned all the same: no context, and a gRPC status of code            *)
(* PermissionDenied with the empty message; never an acceptance, never     *)
(* another code, never the error of json.Marshal itself.  In the           *)
(* authority struct every call its permission strategy denied ends so,     *)
(* whether json.Marshal failed or not.                                     *)
(***************************************************************************)
C18_DenialSurvivesMarshalFailure ==
  fn.op = "deny" =>
    /\ (fn.marshalCalls = 1 /\ fn.marshal.err # NoError) =>
         /\ fn.call.gate = "rejected"
         /\ fn.call.gateCtx = NilCtx
         /\ fn.call.gateErr.kind = "status"
         /\ fn.call.gateErr.code = "PermissionDenied"
         /\ fn.call.gateErr.msg = <<>>
    /\ (fn.version = "authority" /\ ~fn.call.permResult) =>
         /\ fn.marshalCalls = 1
         /\ fn.call.gate = "rejected"
         /\ fn.call.gateCtx = NilCtx
         /\ fn.call.gateErr.kind = "status"
         /\ fn.call.gateErr.code = "PermissionDenied"

\* the permission strategy of the authority struct denied a client with
\* permissions, json.Marshal failed, and the status has the empty message
C18_Witness ==
  /\ fn.op = "deny" /\ fn.version = "authority"
  /\ ~fn.call.permResult
  /\ fn.call.authResult.Permissions = Slice(<<sSlash, sPctM>>)
  /\ fn.marshalCalls = 1 /\ fn.marshal = MarshalFailed
  /\ fn.call.gateErr = StatusError("PermissionDenied", <<>>)

(***************************************************************************)
(* C19: provided the strategies and the handler return when they are       *)
(* called, every call that has entered UnaryServerInterceptor or           *)
(* StreamServerInterceptor eventually returns, and it returns either       *)
(* after its handler ran, the gate having accepted it, or with the         *)
(* Unauthenticated or PermissionDenied status and the handler not run.     *)
(***************************************************************************)
C19_EveryCallReturns ==
  \A c \in CallIds :
    [](calls[c].pc # "idle" =>
         <>(/\ calls[c].pc = "returned"
            /\ \/ calls[c].gate = "accepted" /\ calls[c].handlerCalls = 1
               \/ /\ calls[c].gate = "rejected"
                  /\ calls[c].handlerCalls = 0
                  /\ calls[c].err.kind = "status"
                  /\ calls[c].err.code \in {"Unauthenticated",
                                            "PermissionDenied"}))

(***************************************************************************)
(* C20: a call whose authentication strategy returned a nil *AuthResult    *)
(* together with a nil error neither crashes the Authority nor is          *)
(* accepted: no field of the nil AuthResult is read, the permission        *)
(* strategy and the handler are not invoked, no context is returned, and   *)
(* the call ends in an Unauthenticated or PermissionDenied status.         *)
(***************************************************************************)
C20_NilPrincipalRejected ==
  \A c \in CallIds :
    LET call == calls[c]
    IN  (/\ call.authCalls = 1 /\ call.pc # "authenticate"
         /\ call.authResult.isNil /\ call.authErr = NoError) =>
          /\ call.pc # "panicked"
          /\ call.pc = "returned"
          /\ call.gate = "rejected"
          /\ call.gateCtx = NilCtx
          /\ call.gateErr.kind = "status"
          /\ call.gateErr.code \in {"Unauthenticated", "PermissionDenied"}
          /\ call.permCalls = 0
          /\ call.handlerCalls = 0

=============================================================================
